---- MODULE Spec2Model ----
(***************************************************************************)
(* Debt ledger of the pizza bot: orders, per-pair debt edges and payments. *)
(* Money is a Decimal with two decimal places.  The amounts of debts and   *)
(* payments are counted in hundredths of a currency unit (kopecks); the    *)
(* amount and the share of an order, which go up to MAX_AMOUNT, are kept   *)
(* as whole units and hundredths, Dec(units, cents).                       *)
(***************************************************************************)
EXTENDS Integers, Sequences, FiniteSets, TLC

\* the Decimal units + cents / 100, 0 <= cents < 100
Dec(units, cents) == [units |-> units, cents |-> cents]

\* a Decimal in hundredths
cents_of(d) == 100 * d.units + d.cents

(***************************************************************************)
(* Bounds of the model.                                                    *)
(***************************************************************************)
MaxOrders == 1      \* orders created in one behaviour
MaxApplies == 2     \* create_debts_from_order calls in one behaviour
MaxPayments == 2    \* payment records stored in one behaviour
MaxPay == 2         \* largest payment amount tried
MaxChatOrders == 2  \* orders created in one behaviour of the two-chat scenario
MaxLen == 3         \* longest participant list supplied to create_order
MaxUnits == 3       \* largest small whole-unit order amount tried
MaxAppliedUnits == 3000  \* largest order amount whose debts are generated

(***************************************************************************)
(* Inputs.                                                                 *)
(***************************************************************************)
Users == {"ivan", "petya", "masha"}
Chats == {0, 1}
Descriptions == {"pizza"}
Payers == {"ivan", "petya"}
\* 0.01 split in two is 0.005, a share of 0.01; split in three, a share of 0.00
OrderAmounts == {Dec(0, 1)}
ParticipantLists == { <<"petya", "masha">>, <<"ivan", "petya">> }
PayPairs ==
    { <<"petya", "ivan">>, <<"masha", "ivan">>, <<"ivan", "petya">>,
      <<"masha", "petya">> }
PayAmounts == 0..MaxPay
\* the concurrent-payment scenario: ivan paid, petya and masha pay him back
\* 0.02 split in three is a share of 0.01
ConcOrderAmounts == {Dec(0, 1), Dec(0, 2)}
ConcPayers == {"ivan"}
ConcParticipantLists == { <<"petya", "masha">> }
ConcPairs == { <<"petya", "ivan">>, <<"masha", "ivan">> }
\* the mixed scenario: ivan pays for petya, or for petya and masha
MixParticipantLists == {<<"petya">>, <<"petya", "masha">>}
\* the store-failure scenario: 0.03 and 0.06 split in three, shares of 0.01
\* and 0.02
FailOrderAmounts == {Dec(0, 3), Dec(0, 6)}
\* the two-chat scenario: ivan and petya split 0.02 in each chat, petya pays
\* ivan; an order of 0.00 is refused
ChatOrderAmounts == {Dec(0, 0), Dec(0, 2)}
ChatParticipantLists == { <<"ivan", "petya">> }
ChatPairs == { <<"petya", "ivan">> }
\* the netting scenario: ivan and petya pay 0.04 for each other and for
\* masha (a share of 0.02 between two, of 0.01 among three), or 0.01 (a share
\* of 0.01 between two, of 0.00 among three)
NetOrderAmounts == {Dec(0, 4), Dec(0, 1)}
\* the deletion scenario: petya pays ivan back
DelPairs == { <<"petya", "ivan">> }
Keys == Users \X Users \X Chats

(***************************************************************************)
(* Program constants (src/domain/models.py).                               *)
(***************************************************************************)
MAX_AMOUNT == 1000000000
MIN_PARTICIPANTS == 2
\* ThreadPoolExecutor(max_workers=2) of the concurrent-payment scenario
max_workers == 2
Procs == 1..max_workers

None == [none |-> TRUE]

\* the order-creation scenario: one create_order call on a fresh repository,
\* with any list of up to MaxLen users, duplicates and the payer included,
\* and amounts below, at and above both ends of the accepted range
ListsUpTo(n) == UNION {[1..k -> Users] : k \in 0..n}
OrderCallLists == ListsUpTo(MaxLen)
OrderCallAmounts ==
    {Dec(0, c) : c \in 0..99}
        \cup {Dec(u, 0) : u \in 1..MaxUnits}
        \cup {Dec(10, 0), Dec(100, 0), Dec(3000, 0)}
        \cup {Dec(-1, 0), Dec(-1, 50)}
        \cup {Dec(MAX_AMOUNT - 1, 99), Dec(MAX_AMOUNT, 0), Dec(MAX_AMOUNT, 1),
              Dec(MAX_AMOUNT + 1, 0)}

VARIABLES
    orders,     \* InMemoryRepository._orders: order id -> Order
    debts,      \* InMemoryRepository._debts: (debtor, creditor, chat_id) -> Debt
    payments,   \* InMemoryRepository._payments: list of Payment
    users,      \* InMemoryRepository._users
    nextId,     \* number of ids generated so far (Order.generate_id)
    applies,    \* number of create_debts_from_order calls so far
    added,      \* history: per key, the sum of the shares added by create_debts_from_order
    last,       \* the last call: its name, arguments and outcome
    pc,         \* per worker thread: where it is in record_payment
    local,      \* per worker thread: the call's arguments, the debt it read, its outcome
    debts0,     \* history: the debts when the first worker started
    db          \* the SQLiteRepository database run next to the in-memory store

ledger == <<orders, debts, payments, users, nextId, applies, added, last>>
workers == <<pc, local, debts0>>
vars == <<ledger, workers, db>>

(***************************************************************************)
(* Domain models (src/domain/models.py).                                   *)
(***************************************************************************)
\* A rounding that drops the fraction.
half_up_truncating(x, n) == x \div n

\* x / n rounded half up to an integer, for x >= 0
half_up(x, n) == (2 * x + n) \div (2 * n)

\* A share quantized to whole units instead of hundredths.
calculate_per_person_whole_units(amount, num_participants) ==
    Dec(half_up(amount.units, num_participants), 0)

\* Order.calculate_per_person: amount / n quantized to 0.01, ROUND_HALF_UP.
\* The whole units are divided first and the remainder, in hundredths, is
\* divided and rounded.
calculate_per_person(amount, num_participants) ==
    LET rest == half_up(100 * (amount.units % num_participants) + amount.cents,
                        num_participants)
    IN  Dec(amount.units \div num_participants + rest \div 100, rest % 100)

\* An is_settled that takes a balance of exactly zero for an open debt.
is_settled_strict(debt) == debt.amount < 0

\* Debt.is_settled
is_settled(debt) == debt.amount <= 0

\* A reduce that returns the debt as it was.
Debt_reduce_unreduced(debt, payment_amount) == debt

\* Debt.reduce
Debt_reduce(debt, payment_amount) ==
    [debt EXCEPT !.amount = debt.amount - payment_amount]

(***************************************************************************)
(* Repository (src/persistence/memory_repo.py).                            *)
(***************************************************************************)
\* A key without the chat: one edge per pair, whatever the chat.
DebtKey_without_chat(debt) == <<debt.debtor, debt.creditor, 0>>

\* save_debt's key
DebtKey(debt) == <<debt.debtor, debt.creditor, debt.chat_id>>

\* A save_debt that nets at write time: the opposite edge of the pair goes.
repo_save_debt_netting(ds, debt) ==
    [k \in (DOMAIN ds \cup {DebtKey(debt)})
              \ {<<debt.creditor, debt.debtor, debt.chat_id>>} |->
        IF k = DebtKey(debt) THEN debt ELSE ds[k]]

repo_save_debt(ds, debt) ==
    [k \in DOMAIN ds \cup {DebtKey(debt)} |->
        IF k = DebtKey(debt) THEN debt ELSE ds[k]]

repo_get_debt(ds, debtor, creditor, chat_id) ==
    IF <<debtor, creditor, chat_id>> \in DOMAIN ds
    THEN ds[<<debtor, creditor, chat_id>>]
    ELSE None

\* A delete_debt that forgets the debtor: every debt owed to the creditor in
\* the chat goes.
repo_delete_debt_of_creditor(ds, debtor, creditor, chat_id) ==
    [k \in {x \in DOMAIN ds : ~(x[2] = creditor /\ x[3] = chat_id)} |-> ds[k]]

repo_delete_debt(ds, debtor, creditor, chat_id) ==
    [k \in DOMAIN ds \ {<<debtor, creditor, chat_id>>} |-> ds[k]]

\* get_debts_by_debtor, get_debts_by_creditor, get_all_debts: the records
\* listed (the order of the list is not modelled)
repo_get_debts_by_debtor(ds, debtor, chat_id) ==
    {ds[k] : k \in {x \in DOMAIN ds : x[1] = debtor /\ x[3] = chat_id}}

repo_get_debts_by_creditor(ds, creditor, chat_id) ==
    {ds[k] : k \in {x \in DOMAIN ds : x[2] = creditor /\ x[3] = chat_id}}

\* A get_all_debts that forgets the chat.
repo_get_all_debts_every_chat(ds, chat_id) == {ds[k] : k \in DOMAIN ds}

repo_get_all_debts(ds, chat_id) ==
    {ds[k] : k \in {x \in DOMAIN ds : x[3] = chat_id}}

\* A save_payment that keeps one record per (debtor, creditor, chat), as
\* save_debt does for debts.
repo_save_payment_upsert(ps, payment) ==
    Append(SelectSeq(ps, LAMBDA x :
                <<x.debtor, x.creditor, x.chat_id>> #
                <<payment.debtor, payment.creditor, payment.chat_id>>),
           payment)

repo_save_payment(ps, payment) == Append(ps, payment)

\* A save_order that keeps the saved order only.
repo_save_order_only(os, order) == [i \in {order.id} |-> order]

repo_save_order(os, order) ==
    [i \in DOMAIN os \cup {order.id} |-> IF i = order.id THEN order ELSE os[i]]

SeqRange(s) == {s[i] : i \in DOMAIN s}

(***************************************************************************)
(* OrderService (src/domain/services.py).                                  *)
(***************************************************************************)
\* amount <= Decimal('0')
not_positive(amount) == amount.units < 0 \/ (amount.units = 0 /\ amount.cents = 0)

\* A limit check that rejects the ceiling itself.
over_limit_at_ceiling(amount) == amount.units >= MAX_AMOUNT

\* amount > MAX_AMOUNT
over_limit(amount) ==
    amount.units > MAX_AMOUNT \/ (amount.units = MAX_AMOUNT /\ amount.cents > 0)

\* _validate_amount: the error it raises, "ok" when it raises none.
validate_amount(amount) ==
    IF not_positive(amount) THEN "ValidationError: amount must be positive"
    ELSE IF over_limit(amount) THEN "ValidationError: amount exceeds limit"
    ELSE "ok"

\* _validate_participants
validate_participants(participants) ==
    IF Len(participants) < MIN_PARTICIPANTS
    THEN "ValidationError: at least two participants required"
    ELSE "ok"

\* An insertion that puts the payer at the front whether absent or not.
with_payer_always(payer, participants) == <<payer>> \o participants

\* create_order lines 73-75: the payer is put at the front when absent.
with_payer(payer, participants) ==
    IF payer \notin SeqRange(participants)
    THEN <<payer>> \o participants
    ELSE participants

\* description or "без описания"
default_description == "bez opisaniya"

\* create_order: [status, order]; the order is saved by the action.
create_order(id, description, amount, payer, participants, chat_id) ==
    IF validate_amount(amount) # "ok"
    THEN [status |-> validate_amount(amount), order |-> None]
    ELSE IF validate_participants(with_payer(payer, participants)) # "ok"
    THEN [status |-> validate_participants(with_payer(payer, participants)),
          order |-> None]
    ELSE [status |-> "ok",
          order |-> [id |-> id,
                     description |-> IF description = "" THEN default_description
                                     ELSE description,
                     amount |-> amount,
                     payer |-> payer,
                     participants |-> with_payer(payer, participants),
                     per_person_amount |->
                        calculate_per_person(amount,
                            Len(with_payer(payer, participants))),
                     chat_id |-> chat_id]]

(***************************************************************************)
(* DebtService (src/domain/services.py).                                   *)
(***************************************************************************)
\* ", ".join(d for d in descriptions if d): a description is the sequence
\* of its non-empty fragments.
join_descriptions(existing, description) ==
    existing \o (IF description = "" THEN <<>> ELSE <<description>>)

\* A loop body that replaces the existing edge by the order's share.
merged_debt_replacing(ds, participant, order) ==
    [debtor |-> participant,
     creditor |-> order.payer,
     chat_id |-> order.chat_id,
     amount |-> cents_of(order.per_person_amount),
     description |-> join_descriptions(<<>>, order.description)]

\* The body of the loop of create_debts_from_order for one participant:
\* the edge to save.
merged_debt(ds, participant, order) ==
    LET existing == repo_get_debt(ds, participant, order.payer, order.chat_id)
    IN  IF existing # None
        THEN [debtor |-> participant,
              creditor |-> order.payer,
              chat_id |-> order.chat_id,
              amount |-> existing.amount + cents_of(order.per_person_amount),
              description |->
                  join_descriptions(existing.description, order.description)]
        ELSE [debtor |-> participant,
              creditor |-> order.payer,
              chat_id |-> order.chat_id,
              amount |-> cents_of(order.per_person_amount),
              description |-> join_descriptions(<<>>, order.description)]

\* A loop that does not skip the payer.
RECURSIVE apply_from_with_payer(_, _, _, _)
apply_from_with_payer(ds, returned, order, i) ==
    IF i > Len(order.participants) THEN [debts |-> ds, returned |-> returned]
    ELSE apply_from_with_payer(
            repo_save_debt(ds, merged_debt(ds, order.participants[i], order)),
            Append(returned, merged_debt(ds, order.participants[i], order)),
            order, i + 1)

\* create_debts_from_order, participants i..Len: [debts, returned].
RECURSIVE apply_from(_, _, _, _)
apply_from(ds, returned, order, i) ==
    IF i > Len(order.participants) THEN [debts |-> ds, returned |-> returned]
    ELSE IF order.participants[i] = order.payer
    THEN apply_from(ds, returned, order, i + 1)
    ELSE apply_from(repo_save_debt(ds, merged_debt(ds, order.participants[i], order)),
                    Append(returned, merged_debt(ds, order.participants[i], order)),
                    order, i + 1)

create_debts_from_order(ds, order) == apply_from(ds, <<>>, order, 1)

\* DebtService.get_debt: the amount, 0 when there is no edge.
get_debt(ds, debtor, creditor, chat_id) ==
    IF repo_get_debt(ds, debtor, creditor, chat_id) # None
    THEN repo_get_debt(ds, debtor, creditor, chat_id).amount
    ELSE 0

\* get_debts_by_user, get_debts_to_user, get_all_debts: the debts listed,
\* settled ones filtered out
get_debts_by_user(ds, user, chat_id) ==
    {d \in repo_get_debts_by_debtor(ds, user, chat_id) : ~is_settled(d)}

\* A view of the debts owed to a user that lists settled records too.
get_debts_to_user_unfiltered(ds, user, chat_id) ==
    repo_get_debts_by_creditor(ds, user, chat_id)

get_debts_to_user(ds, user, chat_id) ==
    {d \in repo_get_debts_by_creditor(ds, user, chat_id) : ~is_settled(d)}

get_all_debts(ds, chat_id) ==
    {d \in repo_get_all_debts(ds, chat_id) : ~is_settled(d)}

\* the canned messages of the two per-user views (transliterated)
NO_DEBTS_MESSAGE == "Dolgov net"
NOBODY_OWES_MESSAGE == "Vam nikto ne dolzhen"

\* the sum of the amounts of the debts of S
RECURSIVE sum_amounts(_)
sum_amounts(S) ==
    IF S = {} THEN 0
    ELSE LET d == CHOOSE y \in S : TRUE
         IN  d.amount + sum_amounts(S \ {d})

\* the dict get_debts_by_user returns
get_debts_by_user_result(ds, user, chat_id) ==
    LET active_debts == get_debts_by_user(ds, user, chat_id)
    IN  IF active_debts = {}
        THEN [debts |-> {}, total |-> 0, message |-> NO_DEBTS_MESSAGE]
        ELSE [debts |-> {[creditor |-> d.creditor, amount |-> d.amount,
                          description |-> d.description] : d \in active_debts},
              total |-> sum_amounts(active_debts),
              message |-> None]

\* the dict get_debts_to_user returns
get_debts_to_user_result(ds, user, chat_id) ==
    LET active_debts == get_debts_to_user(ds, user, chat_id)
    IN  IF active_debts = {}
        THEN [debts |-> {}, total |-> 0, message |-> NOBODY_OWES_MESSAGE]
        ELSE [debts |-> {[debtor |-> d.debtor, amount |-> d.amount,
                          description |-> d.description] : d \in active_debts},
              total |-> sum_amounts(active_debts),
              message |-> None]

\* the dict get_all_debts returns
get_all_debts_result(ds, chat_id) ==
    LET active_debts == get_all_debts(ds, chat_id)
    IN  [debts |-> {[debtor |-> d.debtor, creditor |-> d.creditor,
                     amount |-> d.amount, description |-> d.description] :
                        d \in active_debts},
         total |-> sum_amounts(active_debts)]

\* A net balance that keeps the sign of the difference.
get_net_balance_signed(ds, user1, user2, chat_id) ==
    LET net == get_debt(ds, user1, user2, chat_id)
                 - get_debt(ds, user2, user1, chat_id)
    IN  IF net > 0
        THEN [net_balance |-> net, net_debtor |-> user1, net_creditor |-> user2]
        ELSE IF net < 0
        THEN [net_balance |-> net, net_debtor |-> user2, net_creditor |-> user1]
        ELSE [net_balance |-> 0, net_debtor |-> None, net_creditor |-> None]

\* A net balance that names the first user as the debtor whatever the sign.
get_net_balance_unswapped(ds, user1, user2, chat_id) ==
    LET net == get_debt(ds, user1, user2, chat_id)
                 - get_debt(ds, user2, user1, chat_id)
    IN  IF net > 0
        THEN [net_balance |-> net, net_debtor |-> user1, net_creditor |-> user2]
        ELSE IF net < 0
        THEN [net_balance |-> -net, net_debtor |-> user1, net_creditor |-> user2]
        ELSE [net_balance |-> 0, net_debtor |-> None, net_creditor |-> None]

\* A net balance computed from the second user's side under the first
\* user's labels.
get_net_balance_reversed(ds, user1, user2, chat_id) ==
    LET net == get_debt(ds, user2, user1, chat_id)
                 - get_debt(ds, user1, user2, chat_id)
    IN  IF net > 0
        THEN [net_balance |-> net, net_debtor |-> user1, net_creditor |-> user2]
        ELSE IF net < 0
        THEN [net_balance |-> -net, net_debtor |-> user2, net_creditor |-> user1]
        ELSE [net_balance |-> 0, net_debtor |-> None, net_creditor |-> None]

\* DebtService.get_net_balance: the two opposite debts of a pair netted
get_net_balance(ds, user1, user2, chat_id) ==
    LET net == get_debt(ds, user1, user2, chat_id)
                 - get_debt(ds, user2, user1, chat_id)
    IN  IF net > 0
        THEN [net_balance |-> net, net_debtor |-> user1, net_creditor |-> user2]
        ELSE IF net < 0
        THEN [net_balance |-> -net, net_debtor |-> user2, net_creditor |-> user1]
        ELSE [net_balance |-> 0, net_debtor |-> None, net_creditor |-> None]

\* the sum of f over the finite set S
RECURSIVE SumOver(_, _)
SumOver(S, f) ==
    IF S = {} THEN 0
    ELSE LET x == CHOOSE y \in S : TRUE
         IN  f[x] + SumOver(S \ {x}, f)

\* the live edge debtor -> creditor of the chat, None when there is none
live_edge(ds, debtor, creditor, chat_id) ==
    IF \E d \in get_debts_by_user(ds, debtor, chat_id) : d.creditor = creditor
    THEN CHOOSE d \in get_debts_by_user(ds, debtor, chat_id) : d.creditor = creditor
    ELSE None

\* Counterparties found from the user's own debts only.
counterparties_owed_only(ds, user, chat_id) ==
    {d.creditor : d \in get_debts_by_user(ds, user, chat_id)}

\* the counterparties of the user: a live edge in either direction
counterparties(ds, user, chat_id) ==
    {d.creditor : d \in get_debts_by_user(ds, user, chat_id)}
        \cup {d.debtor : d \in get_debts_to_user(ds, user, chat_id)}

\* i_owe.amount - they_owe.amount, a missing edge counted as zero
net_with(ds, user, counterparty, chat_id) ==
    (IF live_edge(ds, user, counterparty, chat_id) # None
     THEN live_edge(ds, user, counterparty, chat_id).amount ELSE 0)
    - (IF live_edge(ds, counterparty, user, chat_id) # None
       THEN live_edge(ds, counterparty, user, chat_id).amount ELSE 0)

\* one entry of the breakdown
consolidated_entry(ds, user, counterparty, chat_id) ==
    LET net == net_with(ds, user, counterparty, chat_id)
    IN  [counterparty |-> counterparty,
         i_owe |-> live_edge(ds, user, counterparty, chat_id),
         they_owe |-> live_edge(ds, counterparty, user, chat_id),
         net_amount |-> IF net < 0 THEN -net ELSE net,
         net_direction |-> IF net > 0 THEN "i_owe"
                           ELSE IF net < 0 THEN "they_owe" ELSE "settled"]

\* A breakdown whose grand totals add up the raw edges instead of the nets.
get_consolidated_debts_raw_totals(ds, user, chat_id) ==
    LET cps == counterparties(ds, user, chat_id)
    IN  [debts |-> {consolidated_entry(ds, user, c, chat_id) : c \in cps},
         total_i_owe |->
            SumOver(cps, [c \in cps |-> get_debt(ds, user, c, chat_id)]),
         total_they_owe |->
            SumOver(cps, [c \in cps |-> get_debt(ds, c, user, chat_id)])]

\* DebtService.get_consolidated_debts: the breakdown per counterparty and
\* the two grand totals
get_consolidated_debts(ds, user, chat_id) ==
    LET cps == counterparties(ds, user, chat_id)
        net == [c \in cps |-> net_with(ds, user, c, chat_id)]
    IN  [debts |-> {consolidated_entry(ds, user, c, chat_id) : c \in cps},
         total_i_owe |->
            SumOver({c \in cps : net[c] > 0}, net),
         total_they_owe |->
            SumOver({c \in cps : net[c] < 0}, [c \in cps |-> -net[c]])]

\* A check that rejects the payment of the whole balance as an overpayment.
reduce_check_ge(debt, amount) ==
    IF debt = None THEN "DebtNotFoundError"
    ELSE IF is_settled(debt) THEN "DebtNotFoundError"
    ELSE IF amount >= debt.amount THEN "PaymentExceedsDebtError"
    ELSE "ok"

\* reduce_debt lines 306-314: the error raised for the debt read, or "ok".
reduce_check(debt, amount) ==
    IF debt = None THEN "DebtNotFoundError"
    ELSE IF is_settled(debt) THEN "DebtNotFoundError"
    ELSE IF amount > debt.amount THEN "PaymentExceedsDebtError"
    ELSE "ok"

\* A write that settles the pair: the opposite edge goes with the payment.
reduce_write_settling_pair(ds, debt, amount) ==
    repo_delete_debt(
        IF is_settled(Debt_reduce(debt, amount))
        THEN repo_delete_debt(ds, debt.debtor, debt.creditor, debt.chat_id)
        ELSE repo_save_debt(ds, Debt_reduce(debt, amount)),
        debt.creditor, debt.debtor, debt.chat_id)

\* reduce_debt lines 316-321: the store after the write for the debt read.
reduce_write(ds, debt, amount) ==
    IF is_settled(Debt_reduce(debt, amount))
    THEN repo_delete_debt(ds, debt.debtor, debt.creditor, debt.chat_id)
    ELSE repo_save_debt(ds, Debt_reduce(debt, amount))

\* A reduce_debt that settles the edge before it rejects an overpayment.
reduce_debt_clamping(ds, debtor, creditor, amount, chat_id) ==
    LET debt == repo_get_debt(ds, debtor, creditor, chat_id)
    IN  IF reduce_check(debt, amount) = "PaymentExceedsDebtError"
        THEN [status |-> "PaymentExceedsDebtError",
              debts |-> repo_delete_debt(ds, debtor, creditor, chat_id)]
        ELSE IF reduce_check(debt, amount) # "ok"
        THEN [status |-> reduce_check(debt, amount), debts |-> ds]
        ELSE [status |-> "ok", debts |-> reduce_write(ds, debt, amount)]

\* reduce_debt: [status, debts].
reduce_debt(ds, debtor, creditor, amount, chat_id) ==
    LET debt == repo_get_debt(ds, debtor, creditor, chat_id)
    IN  IF reduce_check(debt, amount) # "ok"
        THEN [status |-> reduce_check(debt, amount), debts |-> ds]
        ELSE [status |-> "ok", debts |-> reduce_write(ds, debt, amount)]

(***************************************************************************)
(* PaymentService (src/domain/services.py).                                *)
(***************************************************************************)
new_payment(id, debtor, creditor, amount, chat_id) ==
    [id |-> id, debtor |-> debtor, creditor |-> creditor,
     amount |-> amount, chat_id |-> chat_id]

\* A record_payment that logs the balance the payment left, not the amount paid.
record_payment_remaining(ds, ps, id, debtor, creditor, amount, chat_id) ==
    IF amount <= 0
    THEN [status |-> "ValidationError", debts |-> ds, payments |-> ps,
          payment |-> None]
    ELSE LET r == reduce_debt(ds, debtor, creditor, amount, chat_id)
             left == get_debt(r.debts, debtor, creditor, chat_id)
         IN  IF r.status # "ok"
             THEN [status |-> r.status, debts |-> r.debts, payments |-> ps,
                   payment |-> None]
             ELSE [status |-> "ok", debts |-> r.debts,
                   payments |-> repo_save_payment(ps,
                       new_payment(id, debtor, creditor, left, chat_id)),
                   payment |-> new_payment(id, debtor, creditor, left, chat_id)]

\* record_payment: [status, debts, payments, payment].
record_payment(ds, ps, id, debtor, creditor, amount, chat_id) ==
    IF amount <= 0
    THEN [status |-> "ValidationError", debts |-> ds, payments |-> ps,
          payment |-> None]
    ELSE LET r == reduce_debt(ds, debtor, creditor, amount, chat_id)
         IN  IF r.status # "ok"
             THEN [status |-> r.status, debts |-> r.debts, payments |-> ps,
                   payment |-> None]
             ELSE [status |-> "ok", debts |-> r.debts,
                   payments |-> repo_save_payment(ps,
                       new_payment(id, debtor, creditor, amount, chat_id)),
                   payment |-> new_payment(id, debtor, creditor, amount, chat_id)]

(***************************************************************************)
(* The ledger, one call at a time.                                         *)
(***************************************************************************)
NoCall == [op |-> "none", status |-> "none", args |-> <<>>, ret |-> None]
NoLocal == [status |-> "none", debtor |-> "", creditor |-> "", amount |-> 0,
            chat_id |-> 0, debt |-> None]

\* SQLiteRepository._init_schema on a new file: the four tables, empty
EmptyDb == [users |-> {}, orders |-> <<>>, debts |-> <<>>, payments |-> <<>>]

Init ==
    /\ orders = <<>>
    /\ debts = <<>>
    /\ payments = <<>>
    /\ users = {}
    /\ nextId = 0
    /\ applies = 0
    /\ added = [k \in Keys |-> 0]
    /\ last = NoCall
    /\ pc = [p \in Procs |-> "idle"]
    /\ local = [p \in Procs |-> NoLocal]
    /\ debts0 = <<>>
    /\ db = EmptyDb

\* The shares one create_debts_from_order call adds to key k: one share per
\* pass of the loop that writes k.
SharesAdded(order, k) ==
    cents_of(order.per_person_amount) *
        Cardinality({i \in DOMAIN order.participants :
                        /\ order.participants[i] # order.payer
                        /\ <<order.participants[i], order.payer, order.chat_id>> = k})

\* OrderService.create_order: validation, the Order, save_order
OrderCall(description, amount, payer, participants, chat_id) ==
    /\ LET r == create_order(nextId + 1, description, amount, payer,
                             participants, chat_id)
       IN  /\ last' = [op |-> "CreateOrder", status |-> r.status,
                       args |-> [amount |-> amount, payer |-> payer,
                                 participants |-> participants,
                                 chat_id |-> chat_id],
                       ret |-> r.order]
           /\ IF r.status = "ok"
              THEN /\ orders' = repo_save_order(orders, r.order)
                   /\ users' = users \cup SeqRange(r.order.participants)
                   /\ nextId' = nextId + 1
              ELSE UNCHANGED <<orders, users, nextId>>
    /\ UNCHANGED <<debts, payments, applies, added, workers, db>>

\* OrderService.create_order
CreateOrder(description, amount, payer, participants, chat_id) ==
    /\ nextId < MaxOrders
    /\ OrderCall(description, amount, payer, participants, chat_id)

\* DebtService.create_debts_from_order for a stored order
ApplyOrder(id) ==
    /\ applies < MaxApplies
    /\ id \in DOMAIN orders
    /\ LET r == create_debts_from_order(debts, orders[id])
       IN  /\ debts' = r.debts
           /\ last' = [op |-> "ApplyOrder", status |-> "ok",
                       args |-> [id |-> id], ret |-> r.returned]
    /\ applies' = applies + 1
    /\ added' = [k \in Keys |-> added[k] + SharesAdded(orders[id], k)]
    /\ UNCHANGED <<orders, payments, users, nextId, workers, db>>

\* PaymentService.record_payment
RecordPayment(debtor, creditor, amount, chat_id) ==
    /\ Len(payments) < MaxPayments
    /\ LET r == record_payment(debts, payments, Len(payments) + 1,
                               debtor, creditor, amount, chat_id)
       IN  /\ debts' = r.debts
           /\ payments' = r.payments
           /\ last' = [op |-> "RecordPayment", status |-> r.status,
                       args |-> [debtor |-> debtor, creditor |-> creditor,
                                 amount |-> amount, chat_id |-> chat_id],
                       ret |-> r.payment]
    /\ UNCHANGED <<orders, users, nextId, applies, added, workers, db>>

Next ==
    \/ \E description \in Descriptions, amount \in OrderAmounts, payer \in Payers,
          participants \in ParticipantLists, chat_id \in Chats :
            CreateOrder(description, amount, payer, participants, chat_id)
    \/ \E id \in 1..MaxOrders : ApplyOrder(id)
    \/ \E pair \in PayPairs, amount \in PayAmounts, chat_id \in Chats :
            RecordPayment(pair[1], pair[2], amount, chat_id)

Spec == Init /\ [][Next]_vars

(***************************************************************************)
(* The ledger with the repository's deletions (delete_debt, delete_order), *)
(* as the /delete handler drives them.                                     *)
(***************************************************************************)
\* InMemoryRepository.delete_order
repo_delete_order(os, order_id) == [i \in DOMAIN os \ {order_id} |-> os[i]]

DeleteDebt(debtor, creditor, chat_id) ==
    /\ <<debtor, creditor, chat_id>> \in DOMAIN debts
    /\ debts' = repo_delete_debt(debts, debtor, creditor, chat_id)
    /\ last' = [op |-> "DeleteDebt", status |-> "ok", args |-> <<>>,
                ret |-> None]
    /\ UNCHANGED <<orders, payments, users, nextId, applies, added, workers, db>>

DeleteOrder(order_id) ==
    /\ order_id \in DOMAIN orders
    /\ orders' = repo_delete_order(orders, order_id)
    /\ last' = [op |-> "DeleteOrder", status |-> "ok", args |-> <<>>,
                ret |-> None]
    /\ UNCHANGED <<debts, payments, users, nextId, applies, added, workers, db>>

\* The calls of the deletion scenario: ivan's orders and the payments to him.
NextDel ==
    \/ \E description \in Descriptions, amount \in ConcOrderAmounts,
          payer \in ConcPayers, participants \in ConcParticipantLists,
          chat_id \in Chats :
            CreateOrder(description, amount, payer, participants, chat_id)
    \/ \E id \in 1..MaxOrders : ApplyOrder(id)
    \/ \E pair \in DelPairs, amount \in PayAmounts, chat_id \in Chats :
            RecordPayment(pair[1], pair[2], amount, chat_id)
    \/ \E k \in Keys : DeleteDebt(k[1], k[2], k[3])
    \/ \E id \in 1..MaxOrders : DeleteOrder(id)

SpecDel == Init /\ [][NextDel]_vars

(***************************************************************************)
(* Two worker threads, each running one record_payment on its own          *)
(* repository handle of the same database.  Every repository method is one *)
(* transaction (SQLiteRepository._transaction), so a record_payment is     *)
(* three steps: get_debt, then save_debt or delete_debt, then save_payment.*)
(***************************************************************************)
AllIdle == \A p \in Procs : pc[p] = "idle"

\* record_payment up to and including reduce_debt's get_debt and checks
PayRead(p, debtor, creditor, amount, chat_id) ==
    /\ pc[p] = "idle"
    /\ LET debt == repo_get_debt(debts, debtor, creditor, chat_id)
           status == IF amount <= 0 THEN "ValidationError"
                     ELSE reduce_check(debt, amount)
       IN  /\ local' = [local EXCEPT ![p] =
                          [status |-> IF status = "ok" THEN "running" ELSE status,
                           debtor |-> debtor, creditor |-> creditor,
                           amount |-> amount, chat_id |-> chat_id,
                           debt |-> debt]]
           /\ pc' = [pc EXCEPT ![p] = IF status = "ok" THEN "write" ELSE "done"]
    /\ debts0' = IF AllIdle THEN debts ELSE debts0
    /\ UNCHANGED <<ledger, db>>

\* reduce_debt's write: delete_debt or save_debt of the debt read earlier
PayWrite(p) ==
    /\ pc[p] = "write"
    /\ debts' = reduce_write(debts, local[p].debt, local[p].amount)
    /\ pc' = [pc EXCEPT ![p] = "log"]
    /\ UNCHANGED <<orders, payments, users, nextId, applies, added, last,
                   local, debts0, db>>

\* record_payment's save_payment and return
PayLog(p) ==
    /\ pc[p] = "log"
    /\ payments' = repo_save_payment(payments,
                      new_payment(Len(payments) + 1, local[p].debtor,
                                  local[p].creditor, local[p].amount,
                                  local[p].chat_id))
    /\ local' = [local EXCEPT ![p].status = "ok"]
    /\ pc' = [pc EXCEPT ![p] = "done"]
    /\ UNCHANGED <<orders, debts, users, nextId, applies, added, last, debts0,
                   db>>

\* The orders are placed before the workers start.
SetupOrder(description, amount, payer, participants, chat_id) ==
    AllIdle /\ CreateOrder(description, amount, payer, participants, chat_id)

SetupDebts(id) == AllIdle /\ ApplyOrder(id)

NextConc ==
    \/ \E description \in Descriptions, amount \in ConcOrderAmounts,
          payer \in ConcPayers, participants \in ConcParticipantLists,
          chat_id \in Chats :
            SetupOrder(description, amount, payer, participants, chat_id)
    \/ \E id \in 1..MaxOrders : SetupDebts(id)
    \/ \E p \in Procs, pair \in ConcPairs, amount \in PayAmounts, chat_id \in Chats :
            PayRead(p, pair[1], pair[2], amount, chat_id)
    \/ \E p \in Procs : PayWrite(p)
    \/ \E p \in Procs : PayLog(p)

SpecConc == Init /\ [][NextConc]_vars

(***************************************************************************)
(* The ledger on a store whose writes can fail.  A repository method that  *)
(* raises rolls back its own transaction (SQLiteRepository._transaction)   *)
(* and the exception leaves the service call; the writes the call made     *)
(* through earlier repository methods are committed already.               *)
(***************************************************************************)
\* the participants of the order that are not its payer, one per save_debt
Debtors(order) == SelectSeq(order.participants, LAMBDA x : x # order.payer)

\* create_debts_from_order, participants i..Len, when the save_debt call
\* number `failing` from here raises: [status, debts].
RECURSIVE apply_failing(_, _, _, _)
apply_failing(ds, order, i, failing) ==
    IF i > Len(order.participants) THEN [status |-> "ok", debts |-> ds]
    ELSE IF order.participants[i] = order.payer
    THEN apply_failing(ds, order, i + 1, failing)
    ELSE IF failing = 1
    THEN [status |-> "StoreError", debts |-> ds]
    ELSE apply_failing(repo_save_debt(ds, merged_debt(ds, order.participants[i], order)),
                       order, i + 1, failing - 1)

\* record_payment when a store write raises: `failing` is "debt" for the
\* save_debt or delete_debt of reduce_debt, "payment" for save_payment.
record_payment_failing(ds, ps, id, debtor, creditor, amount, chat_id, failing) ==
    LET r == record_payment(ds, ps, id, debtor, creditor, amount, chat_id)
    IN  IF r.status # "ok" THEN r
        ELSE IF failing = "debt"
        THEN [status |-> "StoreError", debts |-> ds, payments |-> ps,
              payment |-> None]
        ELSE [status |-> "StoreError", debts |-> r.debts, payments |-> ps,
              payment |-> None]

\* create_debts_from_order whose save_debt number `failing` raises
ApplyOrderStoreFailure(id, failing) ==
    /\ applies < MaxApplies
    /\ id \in DOMAIN orders
    /\ failing \in 1..Len(Debtors(orders[id]))
    /\ LET r == apply_failing(debts, orders[id], 1, failing)
       IN  /\ debts' = r.debts
           /\ last' = [op |-> "ApplyOrder", status |-> r.status,
                       args |-> [id |-> id], ret |-> None]
           /\ added' = [k \in Keys |->
                          added[k] + IF k \in DOMAIN r.debts
                                     THEN r.debts[k].amount - (IF k \in DOMAIN debts
                                                               THEN debts[k].amount
                                                               ELSE 0)
                                     ELSE 0]
    /\ applies' = applies + 1
    /\ UNCHANGED <<orders, payments, users, nextId, workers, db>>

\* record_payment that passes its checks and whose write `failing` raises
RecordPaymentStoreFailure(debtor, creditor, amount, chat_id, failing) ==
    /\ Len(payments) < MaxPayments
    /\ record_payment(debts, payments, Len(payments) + 1,
                      debtor, creditor, amount, chat_id).status = "ok"
    /\ LET r == record_payment_failing(debts, payments, Len(payments) + 1,
                                       debtor, creditor, amount, chat_id,
                                       failing)
       IN  /\ debts' = r.debts
           /\ payments' = r.payments
           /\ last' = [op |-> "RecordPayment", status |-> r.status,
                       args |-> [debtor |-> debtor, creditor |-> creditor,
                                 amount |-> amount, chat_id |-> chat_id],
                       ret |-> r.payment]
    /\ UNCHANGED <<orders, users, nextId, applies, added, workers, db>>

FailingWrites == {"debt", "payment"}

NextFail ==
    \/ \E description \in Descriptions, amount \in FailOrderAmounts,
          payer \in ConcPayers, participants \in ConcParticipantLists,
          chat_id \in Chats :
            CreateOrder(description, amount, payer, participants, chat_id)
    \/ \E id \in 1..MaxOrders : ApplyOrder(id)
    \/ \E pair \in ConcPairs, amount \in PayAmounts, chat_id \in Chats :
            RecordPayment(pair[1], pair[2], amount, chat_id)
    \/ \E id \in 1..MaxOrders, failing \in 1..2 :
            ApplyOrderStoreFailure(id, failing)
    \/ \E pair \in ConcPairs, amount \in PayAmounts, chat_id \in Chats,
          failing \in FailingWrites :
            RecordPaymentStoreFailure(pair[1], pair[2], amount, chat_id, failing)

SpecFail == Init /\ [][NextFail]_vars

(***************************************************************************)
(* The same users in two chats: an order in each chat, payments in both.   *)
(***************************************************************************)
ChatCreateOrder(description, amount, payer, participants, chat_id) ==
    /\ nextId < MaxChatOrders
    /\ OrderCall(description, amount, payer, participants, chat_id)

NextChat ==
    \/ \E description \in Descriptions, amount \in ChatOrderAmounts,
          payer \in Payers, participants \in ChatParticipantLists,
          chat_id \in Chats :
            ChatCreateOrder(description, amount, payer, participants, chat_id)
    \/ \E id \in 1..MaxChatOrders : ApplyOrder(id)
    \/ \E pair \in ChatPairs, amount \in PayAmounts, chat_id \in Chats :
            RecordPayment(pair[1], pair[2], amount, chat_id)

SpecChat == Init /\ [][NextChat]_vars

(***************************************************************************)
(* One create_order call on a fresh repository, then the debts of the      *)
(* order it created.                                                       *)
(***************************************************************************)
\* create_order on the fresh repository, chat 0
FirstOrder ==
    /\ last = NoCall
    /\ \E description \in Descriptions \cup {""}, amount \in OrderCallAmounts,
          payer \in Payers, participants \in OrderCallLists :
            OrderCall(description, amount, payer, participants, 0)

\* create_debts_from_order for the order created, when its share fits the
\* hundredths of the debts
ApplyCreatedOrder(id) ==
    /\ id \in DOMAIN orders
    /\ orders[id].amount.units <= MaxAppliedUnits
    /\ ApplyOrder(id)

NextOrder ==
    \/ FirstOrder
    \/ \E id \in 1..MaxOrders : ApplyCreatedOrder(id)

SpecOrder == Init /\ [][NextOrder]_vars

(***************************************************************************)
(* Orders paid by either of two users, so that a pair can owe each other.  *)
(***************************************************************************)
NextNet ==
    \/ \E description \in Descriptions, amount \in NetOrderAmounts,
          payer \in Payers, participants \in ParticipantLists,
          chat_id \in Chats :
            ChatCreateOrder(description, amount, payer, participants, chat_id)
    \/ \E id \in 1..MaxChatOrders : ApplyOrder(id)

SpecNet == Init /\ [][NextNet]_vars

(***************************************************************************)
(* The repository written directly (src/persistence/memory_repo.py): the   *)
(* three store writes with records of any handles.                        *)
(***************************************************************************)
\* InMemoryRepository.save_order: the order stored, its participants
\* registered
SaveOrder(order) ==
    /\ orders' = repo_save_order(orders, order)
    /\ users' = users \cup SeqRange(order.participants)
    /\ last' = [op |-> "save_order", status |-> "ok", args |-> order,
                ret |-> None]
    /\ UNCHANGED <<debts, payments, nextId, applies, added, workers, db>>

\* InMemoryRepository.save_debt: the debt stored under its key
SaveDebt(debt) ==
    /\ debts' = repo_save_debt(debts, debt)
    /\ last' = [op |-> "save_debt", status |-> "ok", args |-> debt,
                ret |-> None]
    /\ UNCHANGED <<orders, payments, users, nextId, applies, added, workers, db>>

\* InMemoryRepository.save_payment: the payment appended
SavePayment(payment) ==
    /\ Len(payments) < MaxPayments
    /\ payments' = repo_save_payment(payments, payment)
    /\ last' = [op |-> "save_payment", status |-> "ok", args |-> payment,
                ret |-> None]
    /\ UNCHANGED <<orders, debts, users, nextId, applies, added, workers, db>>

NextStore ==
    \/ \E id \in 1..MaxOrders, payer \in Payers,
          participants \in ParticipantLists :
            SaveOrder([id |-> id, description |-> "pizza",
                       amount |-> Dec(0, 2), payer |-> payer,
                       participants |-> participants,
                       per_person_amount |-> Dec(0, 1), chat_id |-> 0])
    \/ \E pair \in PayPairs, amount \in 1..MaxPay :
            SaveDebt([debtor |-> pair[1], creditor |-> pair[2], chat_id |-> 0,
                      amount |-> amount, description |-> <<"pizza">>])
    \/ \E pair \in DelPairs, amount \in 1..MaxPay :
            SavePayment(new_payment(Len(payments) + 1, pair[1], pair[2],
                                    amount, 0))

SpecStore == Init /\ [][NextStore]_vars

(***************************************************************************)
(* The file-backed store (src/persistence/sqlite_repo.py): a record is     *)
(* kept as a row of text columns and built back from the row when read.    *)
(* The variables hold the records save_order and save_debt were given;     *)
(* a repository opened on the same database reads them through the rows.   *)
(***************************************************************************)
\* the handles of the restart scenario and their characters
Handles == Users \cup {"a,b", "a", "b"}
chars(h) ==
    CASE h = "ivan"  -> <<"i", "v", "a", "n">>
      [] h = "petya" -> <<"p", "e", "t", "y", "a">>
      [] h = "masha" -> <<"m", "a", "s", "h", "a">>
      [] h = "a,b"   -> <<"a", ",", "b">>
      [] h = "a"     -> <<"a">>
      [] h = "b"     -> <<"b">>
handle_of(cs) == CHOOSE h \in Handles : chars(h) = cs
RestartParticipantLists == {<<"petya">>, <<"a,b">>}

\* ",".join(order.participants)
RECURSIVE str_join(_)
str_join(participants) ==
    IF participants = <<>> THEN <<>>
    ELSE IF Len(participants) = 1 THEN chars(participants[1])
    ELSE chars(participants[1]) \o <<",">> \o str_join(Tail(participants))

\* row['participants'].split(','): the pieces between the commas, the
\* piece in progress being current
RECURSIVE str_split(_, _)
str_split(cs, current) ==
    IF cs = <<>> THEN <<current>>
    ELSE IF Head(cs) = ","
    THEN <<current>> \o str_split(Tail(cs), <<>>)
    ELSE str_split(Tail(cs), Append(current, Head(cs)))

\* str(amount) of a Decimal of two places and Decimal(text)
decimal_str(d) == <<d.units, ".", d.cents \div 10, d.cents % 10>>
decimal_parse(text) == Dec(text[1], 10 * text[3] + text[4])
\* the same for an amount held in hundredths
amount_str(a) == <<a \div 100, ".", (a % 100) \div 10, a % 10>>
amount_parse(text) == 100 * text[1] + 10 * text[3] + text[4]

\* the row save_order writes and the Order get_order builds from a row
order_row(order) ==
    [id |-> order.id,
     description |-> order.description,
     amount |-> decimal_str(order.amount),
     payer |-> order.payer,
     participants |-> str_join(order.participants),
     per_person_amount |-> decimal_str(order.per_person_amount),
     chat_id |-> order.chat_id]

row_order(row) ==
    [id |-> row.id,
     description |-> row.description,
     amount |-> decimal_parse(row.amount),
     payer |-> row.payer,
     participants |->
        [i \in DOMAIN str_split(row.participants, <<>>) |->
            handle_of(str_split(row.participants, <<>>)[i])],
     per_person_amount |-> decimal_parse(row.per_person_amount),
     chat_id |-> row.chat_id]

\* the row save_debt writes and the Debt get_debt builds from a row
debt_row(debt) ==
    [debtor |-> debt.debtor, creditor |-> debt.creditor,
     amount |-> amount_str(debt.amount),
     description |-> debt.description, chat_id |-> debt.chat_id]

row_debt(row) ==
    [debtor |-> row.debtor, creditor |-> row.creditor,
     chat_id |-> row.chat_id,
     amount |-> amount_parse(row.amount),
     description |-> row.description]

\* SQLiteRepository(db_path) on the same database, then get_all_orders and
\* get_all_debts: what the new instance yields
Reopen ==
    /\ last.op # "Reopen"
    /\ last' = [op |-> "Reopen", status |-> "ok", args |-> <<>>,
                ret |-> [orders |-> [id \in DOMAIN orders |->
                                        row_order(order_row(orders[id]))],
                         debts |-> [k \in DOMAIN debts |->
                                        row_debt(debt_row(debts[k]))]]]
    /\ UNCHANGED <<orders, debts, payments, users, nextId, applies, added,
                   workers, db>>

NextRestart ==
    \/ \E description \in Descriptions, amount \in FailOrderAmounts,
          payer \in Payers, participants \in RestartParticipantLists,
          chat_id \in Chats :
            CreateOrder(description, amount, payer, participants, chat_id)
    \/ \E id \in 1..MaxOrders : ApplyOrder(id)
    \/ \E pair \in ChatPairs, amount \in PayAmounts, chat_id \in Chats :
            RecordPayment(pair[1], pair[2], amount, chat_id)
    \/ Reopen

SpecRestart == Init /\ [][NextRestart]_vars

(***************************************************************************)
(* create_debts_from_order run by a worker thread next to record_payment:  *)
(* every repository call is a transaction of its own, so the get_debt and  *)
(* the save_debt of one pass of the loop are two steps.                    *)
(***************************************************************************)
\* the first index from i on of a participant that is not the payer,
\* Len + 1 when there is none
RECURSIVE next_debtor(_, _)
next_debtor(order, i) ==
    IF i > Len(order.participants) THEN i
    ELSE IF order.participants[i] = order.payer THEN next_debtor(order, i + 1)
    ELSE i

\* one pass of the loop up to the save: get_debt and the new Debt built
apply_pass(ds, order, i) ==
    IF i > Len(order.participants)
    THEN [status |-> "ok", debtor |-> "", creditor |-> "", amount |-> 0,
          chat_id |-> order.chat_id, debt |-> None, order |-> order.id,
          i |-> i]
    ELSE [status |-> "running", debtor |-> order.participants[i],
          creditor |-> order.payer,
          amount |-> cents_of(order.per_person_amount),
          chat_id |-> order.chat_id,
          debt |-> merged_debt(ds, order.participants[i], order),
          order |-> order.id, i |-> i]

\* create_debts_from_order entered: the first pass up to its save
ApplyRead(p, id) ==
    /\ pc[p] = "idle"
    /\ id \in DOMAIN orders
    /\ LET i == next_debtor(orders[id], 1)
       IN  /\ local' = [local EXCEPT ![p] = apply_pass(debts, orders[id], i)]
           /\ pc' = [pc EXCEPT ![p] =
                        IF i > Len(orders[id].participants) THEN "done" ELSE "save"]
    /\ debts0' = IF AllIdle THEN debts ELSE debts0
    /\ UNCHANGED <<ledger, db>>

\* the save_debt of the pass, and the next pass up to its save or the return
ApplySave(p) ==
    /\ pc[p] = "save"
    /\ debts' = repo_save_debt(debts, local[p].debt)
    /\ added' = [added EXCEPT ![DebtKey(local[p].debt)] = @ + local[p].amount]
    /\ pc' = [pc EXCEPT ![p] = "next"]
    /\ UNCHANGED <<orders, payments, users, nextId, applies, last, local, debts0,
                   db>>

ApplyNext(p) ==
    /\ pc[p] = "next"
    /\ LET order == orders[local[p].order]
           i == next_debtor(order, local[p].i + 1)
       IN  /\ local' = [local EXCEPT ![p] =
                           IF i > Len(order.participants)
                           THEN [local[p] EXCEPT !.status = "ok"]
                           ELSE apply_pass(debts, order, i)]
           /\ pc' = [pc EXCEPT ![p] =
                        IF i > Len(order.participants) THEN "done" ELSE "save"]
    /\ UNCHANGED <<ledger, debts0, db>>

NextMix ==
    \/ \E description \in Descriptions, amount \in FailOrderAmounts,
          payer \in ConcPayers, participants \in MixParticipantLists :
            SetupOrder(description, amount, payer, participants, 0)
    \/ \E id \in 1..MaxOrders : SetupDebts(id)
    \/ \E p \in Procs, pair \in ChatPairs, amount \in PayAmounts :
            PayRead(p, pair[1], pair[2], amount, 0)
    \/ \E p \in Procs : PayWrite(p)
    \/ \E p \in Procs : PayLog(p)
    \/ \E p \in Procs, id \in 1..MaxOrders : ApplyRead(p, id)
    \/ \E p \in Procs : ApplySave(p)
    \/ \E p \in Procs : ApplyNext(p)

SpecMix == Init /\ [][NextMix]_vars

(***************************************************************************)
(* The two stores side by side: every repository operation is applied to   *)
(* the InMemoryRepository (orders, debts, payments, users) and to the      *)
(* SQLiteRepository (db), both empty at the start.  Each SQLite method     *)
(* runs in one transaction, which rolls back when a statement raises.      *)
(***************************************************************************)
\* the stores scenario: orders paid by ivan or petya, one of them with a
\* comma in a handle; debts and payments of petya to ivan in either chat
StoresParticipantLists == ParticipantLists \cup {<<"a,b">>}

\* InMemoryRepository.get_order, add_user, user_exists
repo_get_order(os, order_id) ==
    IF order_id \in DOMAIN os THEN os[order_id] ELSE None

repo_add_user(us, username) == us \cup {username}

repo_user_exists(us, username) == username \in us

\* SQLiteRepository._ensure_user and add_user: INSERT OR IGNORE INTO users
sql_ensure_user(d, username) == [d EXCEPT !.users = @ \cup {username}]

sql_add_user(d, username) == sql_ensure_user(d, username)

sql_user_exists(d, username) == username \in d.users

\* SQLiteRepository.save_order: the participants are ensured, the payer is
\* not; the row references users(username) through payer, so the INSERT
\* raises for a payer without a users row and the transaction rolls back
sql_save_order(d, order) ==
    LET ensured == d.users \cup SeqRange(order.participants)
    IN  IF order.payer \in ensured
        THEN [d EXCEPT !.users = ensured,
                       !.orders = [i \in DOMAIN d.orders \cup {order.id} |->
                                      IF i = order.id THEN order_row(order)
                                      ELSE d.orders[i]]]
        ELSE d

sql_get_order(d, order_id) ==
    IF order_id \in DOMAIN d.orders THEN row_order(d.orders[order_id])
    ELSE None

sql_delete_order(d, order_id) ==
    [d EXCEPT !.orders = [i \in DOMAIN d.orders \ {order_id} |-> d.orders[i]]]

\* SQLiteRepository.save_debt: both users ensured, the row replaced on its
\* primary key (debtor, creditor, chat_id)
sql_save_debt(d, debt) ==
    [d EXCEPT !.users = @ \cup {debt.debtor, debt.creditor},
              !.debts = [k \in DOMAIN d.debts \cup {DebtKey(debt)} |->
                            IF k = DebtKey(debt) THEN debt_row(debt)
                            ELSE d.debts[k]]]

sql_get_debt(d, debtor, creditor, chat_id) ==
    IF <<debtor, creditor, chat_id>> \in DOMAIN d.debts
    THEN row_debt(d.debts[<<debtor, creditor, chat_id>>])
    ELSE None

sql_get_debts_by_debtor(d, debtor, chat_id) ==
    {row_debt(d.debts[k]) :
        k \in {x \in DOMAIN d.debts : x[1] = debtor /\ x[3] = chat_id}}

sql_get_debts_by_creditor(d, creditor, chat_id) ==
    {row_debt(d.debts[k]) :
        k \in {x \in DOMAIN d.debts : x[2] = creditor /\ x[3] = chat_id}}

sql_get_all_debts(d, chat_id) ==
    {row_debt(d.debts[k]) : k \in {x \in DOMAIN d.debts : x[3] = chat_id}}

sql_delete_debt(d, debtor, creditor, chat_id) ==
    [d EXCEPT !.debts = [k \in DOMAIN d.debts \ {<<debtor, creditor, chat_id>>}
                            |-> d.debts[k]]]

\* SQLiteRepository.save_payment: both users ensured, then a plain INSERT;
\* id is the primary key, so a second row with the id raises and the
\* transaction rolls back
sql_save_payment(d, payment) ==
    IF payment.id \in DOMAIN d.payments
    THEN d
    ELSE [d EXCEPT !.users = @ \cup {payment.debtor, payment.creditor},
                   !.payments = [i \in DOMAIN d.payments \cup {payment.id} |->
                                    IF i = payment.id
                                    THEN [payment EXCEPT
                                            !.amount = amount_str(@)]
                                    ELSE d.payments[i]]]

\* The operations, applied to both stores; status "error" when the SQLite
\* method raised.
save_order(order) ==
    /\ orders' = repo_save_order(orders, order)
    /\ users' = users \cup SeqRange(order.participants)
    /\ db' = sql_save_order(db, order)
    /\ last' = [op |-> "save_order",
                status |-> IF order.payer \in
                                db.users \cup SeqRange(order.participants)
                             THEN "ok" ELSE "error",
                args |-> order, ret |-> None]
    /\ UNCHANGED <<debts, payments, nextId, applies, added, workers>>

delete_order(order_id) ==
    /\ orders' = repo_delete_order(orders, order_id)
    /\ db' = sql_delete_order(db, order_id)
    /\ last' = [op |-> "delete_order", status |-> "ok",
                args |-> [id |-> order_id], ret |-> None]
    /\ UNCHANGED <<debts, payments, users, nextId, applies, added, workers>>

save_debt(debt) ==
    /\ debts' = repo_save_debt(debts, debt)
    /\ db' = sql_save_debt(db, debt)
    /\ last' = [op |-> "save_debt", status |-> "ok", args |-> debt,
                ret |-> None]
    /\ UNCHANGED <<orders, payments, users, nextId, applies, added, workers>>

delete_debt(debtor, creditor, chat_id) ==
    /\ debts' = repo_delete_debt(debts, debtor, creditor, chat_id)
    /\ db' = sql_delete_debt(db, debtor, creditor, chat_id)
    /\ last' = [op |-> "delete_debt", status |-> "ok",
                args |-> [debtor |-> debtor, creditor |-> creditor,
                          chat_id |-> chat_id],
                ret |-> None]
    /\ UNCHANGED <<orders, payments, users, nextId, applies, added, workers>>

save_payment(payment) ==
    /\ Len(payments) < MaxPayments
    /\ payments' = repo_save_payment(payments, payment)
    /\ db' = sql_save_payment(db, payment)
    /\ last' = [op |-> "save_payment",
                status |-> IF payment.id \in DOMAIN db.payments
                             THEN "error" ELSE "ok",
                args |-> payment, ret |-> None]
    /\ UNCHANGED <<orders, debts, users, nextId, applies, added, workers>>

add_user(username) ==
    /\ users' = repo_add_user(users, username)
    /\ db' = sql_add_user(db, username)
    /\ last' = [op |-> "add_user", status |-> "ok",
                args |-> [username |-> username], ret |-> None]
    /\ UNCHANGED <<orders, debts, payments, nextId, applies, added, workers>>

NextStores ==
    \/ \E id \in 1..MaxOrders, payer \in Payers,
          participants \in StoresParticipantLists :
            save_order([id |-> id, description |-> "pizza",
                        amount |-> Dec(0, 2), payer |-> payer,
                        participants |-> participants,
                        per_person_amount |-> Dec(0, 1), chat_id |-> 0])
    \/ \E id \in 1..MaxOrders : delete_order(id)
    \/ \E pair \in DelPairs, amount \in 1..MaxPay, chat_id \in Chats :
            save_debt([debtor |-> pair[1], creditor |-> pair[2],
                       chat_id |-> chat_id, amount |-> amount,
                       description |-> <<"pizza">>])
    \/ \E pair \in DelPairs, chat_id \in Chats :
            delete_debt(pair[1], pair[2], chat_id)
    \/ \E id \in 1..MaxPayments, pair \in DelPairs :
            save_payment(new_payment(id, pair[1], pair[2], 1, 0))
    \/ \E username \in Users : add_user(username)

SpecStores == Init /\ [][NextStores]_vars

(***************************************************************************)
(* Properties.                                                             *)
(***************************************************************************)
EdgeAmount(ds, k) == IF k \in DOMAIN ds THEN ds[k].amount ELSE 0

PaymentKey(payment) == <<payment.debtor, payment.creditor, payment.chat_id>>

\* the sum of the amounts of the payment records stored for key k
RECURSIVE Paid(_, _)
Paid(ps, k) ==
    IF ps = <<>> THEN 0
    ELSE (IF PaymentKey(Head(ps)) = k THEN Head(ps).amount ELSE 0)
         + Paid(Tail(ps), k)

\* C1: every debt record present in the store has amount > 0.
C1_StoredDebtsPositive == \A k \in DOMAIN debts : debts[k].amount > 0

\* C2: for every key (debtor, creditor, chat) the stored edge amount, 0 when
\* the edge is absent, is the sum of the shares create_debts_from_order added
\* to the key minus the sum of the payments recorded for the key.
C2_NoMoneyLostOrCreated ==
    \A k \in Keys : EdgeAmount(debts, k) = added[k] - Paid(payments, k)

\* a key that received shares, took a payment and still carries a balance
C2_Witness ==
    \E k \in Keys :
        /\ Paid(payments, k) > 0
        /\ EdgeAmount(debts, k) > 0
        /\ added[k] > EdgeAmount(debts, k)

ArgsKey(args) == <<args.debtor, args.creditor, args.chat_id>>

Paying == last'.op = "RecordPayment"

\* the outcome the contract gives a payment on store ds
ExpectedOutcome(ds, args) ==
    IF args.amount <= 0 THEN "ValidationError"
    ELSE IF ~(ArgsKey(args) \in DOMAIN ds /\ ds[ArgsKey(args)].amount > 0)
    THEN "DebtNotFoundError"
    ELSE IF args.amount > ds[ArgsKey(args)].amount
    THEN "PaymentExceedsDebtError"
    ELSE "ok"

\* C3: record_payment fails with ValidationError when amount <= 0, otherwise
\* with DebtNotFoundError when the key has no live edge, otherwise with
\* PaymentExceedsDebtError exactly when amount > the edge's amount, and
\* otherwise succeeds; a payment of the whole balance succeeds.
C3_OutcomeOrder ==
    [][Paying => last'.status = ExpectedOutcome(debts, last'.args)]_vars

\* a payment of the whole balance has succeeded
C3_Witness ==
    /\ last.op = "RecordPayment"
    /\ last.status = "ok"
    /\ added[ArgsKey(last.args)] = last.args.amount
    /\ Len(payments) = 1

\* C4: a record_payment that fails leaves every debt edge, the payment log,
\* the orders and the users as they were.
C4_FailedPaymentChangesNothing ==
    [][Paying /\ last'.status # "ok"
        => debts' = debts /\ payments' = payments /\ orders' = orders
           /\ users' = users]_vars

\* an overpayment has been rejected
C4_Witness ==
    /\ last.op = "RecordPayment"
    /\ last.status = "PaymentExceedsDebtError"
    /\ EdgeAmount(debts, ArgsKey(last.args)) > 0

\* the edge of key k is in none of the views of store ds
InNoView(ds, k) ==
    /\ get_debt(ds, k[1], k[2], k[3]) = 0
    /\ \A d \in get_debts_by_user(ds, k[1], k[3]) : DebtKey(d) # k
    /\ \A d \in get_debts_to_user(ds, k[2], k[3]) : DebtKey(d) # k
    /\ \A d \in get_all_debts(ds, k[3]) : DebtKey(d) # k

\* C5: a successful record_payment of p against an edge of d has 0 < p <= d,
\* leaves the edge at d - p when p < d and removes it when p = d; once
\* removed, get_debt reports 0 and no view lists the edge.
C5_SuccessfulPaymentReduces ==
    [][Paying /\ last'.status = "ok"
        => LET k == ArgsKey(last'.args)
               p == last'.args.amount
           IN  /\ k \in DOMAIN debts
               /\ 0 < p /\ p <= debts[k].amount
               /\ IF p < debts[k].amount
                  THEN /\ k \in DOMAIN debts'
                       /\ debts'[k].amount = debts[k].amount - p
                  ELSE /\ k \notin DOMAIN debts'
                       /\ InNoView(debts', k)]_vars

\* an edge has been paid down in part and then paid off
C5_Witness ==
    /\ last.op = "RecordPayment"
    /\ last.status = "ok"
    /\ Len(payments) = 2
    /\ PaymentKey(payments[1]) = PaymentKey(payments[2])
    /\ PaymentKey(payments[2]) \notin DOMAIN debts

\* C6: a successful record_payment appends exactly one payment record, with
\* the debtor, creditor and amount asked for, and returns a Payment of that
\* amount.
C6_PaymentRecordsRequestedAmount ==
    [][Paying /\ last'.status = "ok"
        => /\ Len(payments') = Len(payments) + 1
           /\ SubSeq(payments', 1, Len(payments)) = payments
           /\ payments'[Len(payments')].debtor = last'.args.debtor
           /\ payments'[Len(payments')].creditor = last'.args.creditor
           /\ payments'[Len(payments')].amount = last'.args.amount
           /\ last'.ret = payments'[Len(payments')]]_vars

\* an edge built up by two orders has been paid off in one payment
C6_Witness ==
    /\ last.op = "RecordPayment"
    /\ last.status = "ok"
    /\ last.ret.amount = last.args.amount
    /\ last.args.amount > 1
    /\ ArgsKey(last.args) \notin DOMAIN debts

\* C7: the payment log only grows at its end: every step keeps the log it
\* found as a prefix of the log it leaves.
C7_PaymentLogAppendOnly ==
    [][/\ Len(payments') >= Len(payments)
       /\ SubSeq(payments', 1, Len(payments)) = payments]_vars

\* a debt with recorded payments has been deleted, the payments are still there
C7_Witness ==
    /\ last.op = "DeleteDebt"
    /\ \E i \in DOMAIN payments :
          /\ PaymentKey(payments[i]) \notin DOMAIN debts
          /\ Paid(payments, PaymentKey(payments[i])) < added[PaymentKey(payments[i])]

LocalKey(p) == <<local[p].debtor, local[p].creditor, local[p].chat_id>>

Succeeded(p) == pc[p] = "done" /\ local[p].status = "ok"

\* C8: when two concurrent record_payment calls on one edge of amount d both
\* succeed, with p1 and p2, the edge is left at d - p1 - p2 (stated for
\* p1 + p2 <= d, where no overpayment is involved).
C8_NoLostUpdate ==
    \A p, q \in Procs :
        (/\ p # q /\ Succeeded(p) /\ Succeeded(q) /\ LocalKey(p) = LocalKey(q)
         /\ local[p].amount + local[q].amount <= EdgeAmount(debts0, LocalKey(p)))
        => EdgeAmount(debts, LocalKey(p)) =
             EdgeAmount(debts0, LocalKey(p)) - local[p].amount - local[q].amount

\* C9: for every key, the payments recorded never sum to more than the
\* shares create_debts_from_order added to the key.
C9_NoOverpayment == \A k \in Keys : Paid(payments, k) <= added[k]

\* record_payment run alone on the store the workers started from
Alone(p) ==
    record_payment(debts0, <<>>, 1, local[p].debtor, local[p].creditor,
                   local[p].amount, local[p].chat_id)

C11_ApplyOrderAllOrNothing ==
    [][last'.op = "ApplyOrder" /\ last'.status = "StoreError"
        => debts' = debts]_vars

\* C12: a record_payment call, also one that a store write failure ends, has
\* reduced or deleted a debt edge if and only if it has stored its payment
\* record.
C12_RecordPaymentAllOrNothing ==
    [][last'.op = "RecordPayment"
        => (debts' # debts <=> Len(payments') = Len(payments) + 1)]_vars

\* the chat a call works in
CallChat(os, call) ==
    IF call.op = "ApplyOrder" THEN os[call.args.id].chat_id
    ELSE call.args.chat_id

\* everything the queries of a chat return
ViewsOf(ds, chat_id) ==
    [all |-> get_all_debts(ds, chat_id),
     by_user |-> [u \in Users |-> get_debts_by_user(ds, u, chat_id)],
     to_user |-> [u \in Users |-> get_debts_to_user(ds, u, chat_id)],
     debt |-> [u \in Users |-> [v \in Users |-> get_debt(ds, u, v, chat_id)]],
     consolidated |-> [u \in Users |-> get_consolidated_debts(ds, u, chat_id)]]

\* the records of a chat
DebtsOf(ds, chat_id) == {ds[k] : k \in {x \in DOMAIN ds : x[3] = chat_id}}
OrdersOf(os, chat_id) == {os[i] : i \in {x \in DOMAIN os : os[x].chat_id = chat_id}}
PaymentsOf(ps, chat_id) == SelectSeq(ps, LAMBDA x : x.chat_id = chat_id)

Distinct(seq) == \A i, j \in DOMAIN seq : seq[i] = seq[j] => i = j

\* C14: create_debts_from_order for an order whose non-payer participants
\* are distinct leaves each edge (participant -> payer) at its amount before
\* the call, 0 if absent, plus the order's share.
C14_ApplyOrderAccumulates ==
    [][last'.op = "ApplyOrder" /\ last'.status = "ok"
        => LET order == orders[last'.args.id]
           IN  Distinct(Debtors(order))
               => \A i \in DOMAIN Debtors(order) :
                     LET k == <<Debtors(order)[i], order.payer, order.chat_id>>
                     IN  EdgeAmount(debts', k)
                           = EdgeAmount(debts, k)
                             + cents_of(order.per_person_amount)]_vars

\* the one order, with two debtors, has been applied twice to fresh pairs:
\* each edge is 2 x share
C14_Witness ==
    /\ last.op = "ApplyOrder"
    /\ applies = 2
    /\ payments = <<>>
    /\ 1 \in DOMAIN orders
    /\ cents_of(orders[1].per_person_amount) > 0
    /\ Len(Debtors(orders[1])) = 2
    /\ \A i \in DOMAIN Debtors(orders[1]) :
          EdgeAmount(debts, <<Debtors(orders[1])[i], orders[1].payer,
                              orders[1].chat_id>>)
            = 2 * cents_of(orders[1].per_person_amount)

\* C15: no stored debt record has debtor = creditor; the payer of an order
\* never owes themselves, also when the payer is in the participant list.
C15_NoSelfEdge ==
    \A k \in DOMAIN debts :
        /\ k[1] # k[2]
        /\ debts[k].debtor # debts[k].creditor

\* an order whose participant list was supplied with the payer in it has
\* been applied and has produced edges
C15_Witness ==
    /\ last.op = "ApplyOrder"
    /\ Len(last.ret) > 0
    /\ orders[last.args.id].payer \in SeqRange(orders[last.args.id].participants)
    /\ \A k \in DOMAIN debts : k[2] = orders[last.args.id].payer

\* a < b for Decimals of two places
DecLess(a, b) == a.units < b.units \/ (a.units = b.units /\ a.cents < b.cents)

\* the length of the participant list once the payer is in it
CountWithPayer(payer, participants) ==
    Len(participants) + (IF \E i \in DOMAIN participants : participants[i] = payer
                         THEN 0 ELSE 1)

\* the outcome the contract gives a create_order call
ExpectedCreate(args) ==
    IF ~DecLess(Dec(0, 0), args.amount)
    THEN "ValidationError: amount must be positive"
    ELSE IF DecLess(Dec(1000000000, 0), args.amount)
    THEN "ValidationError: amount exceeds limit"
    ELSE IF CountWithPayer(args.payer, args.participants) < 2
    THEN "ValidationError: at least two participants required"
    ELSE "ok"

\* C16: create_order succeeds exactly when 0 < amount <= 1,000,000,000 and
\* the list with the payer in it has at least 2 entries; otherwise it reports
\* the amount error when the amount is out of range, also when the list is
\* too short as well, and the participants error otherwise.
C16_CreateOrderValidation ==
    last.op = "CreateOrder" => last.status = ExpectedCreate(last.args)

\* an order of exactly the ceiling, for the payer and one other, was accepted
C16_Witness ==
    /\ last.op = "CreateOrder"
    /\ last.status = "ok"
    /\ last.args.amount = Dec(1000000000, 0)
    /\ Len(last.args.participants) = 1
    /\ Len(last.ret.participants) = 2

\* C17: the order create_order returns and stores has the payer in its
\* participant list: the supplied list with the payer put in front when the
\* payer was absent from it, the supplied list itself when the payer was in it.
C17_PayerInParticipants ==
    (last.op = "CreateOrder" /\ last.status = "ok")
        => LET supplied == last.args.participants
               stored == last.ret.participants
               present == \E i \in DOMAIN supplied : supplied[i] = last.args.payer
           IN  /\ \E i \in DOMAIN stored : stored[i] = last.args.payer
               /\ present => stored = supplied
               /\ ~present => /\ Len(stored) = Len(supplied) + 1
                               /\ stored[1] = last.args.payer
                               /\ \A i \in DOMAIN supplied : stored[i + 1] = supplied[i]
               /\ last.ret.id \in DOMAIN orders
               /\ orders[last.ret.id] = last.ret

\* an order was created from a list that had the payer in it, not in front
C17_Witness ==
    /\ last.op = "CreateOrder"
    /\ last.status = "ok"
    /\ Len(last.args.participants) = 3
    /\ last.args.participants[3] = last.args.payer
    /\ last.args.participants[1] # last.args.payer
    /\ last.ret.id \in DOMAIN orders

\* amount - n * share in hundredths, computed units first so that amounts up
\* to MAX_AMOUNT stay within the integers
Drift(order) ==
    LET n == Len(order.participants)
    IN  100 * (order.amount.units - n * order.per_person_amount.units)
          + (order.amount.cents - n * order.per_person_amount.cents)

\* C18: the share of a created order of amount A for N participants is A / N
\* rounded half up to two places: the share s, a whole number of hundredths,
\* has A / N - 0.005 < s <= A / N + 0.005, that is -N <= 2 * (A - N * s) < N
\* in hundredths.
C18_ShareRoundedHalfUp ==
    (last.op = "CreateOrder" /\ last.status = "ok")
        => LET n == Len(last.ret.participants)
           IN  /\ n >= 2
               /\ last.ret.amount = last.args.amount
               /\ last.ret.per_person_amount.cents \in 0..99
               /\ last.ret.per_person_amount.units >= 0
               /\ -n <= 2 * Drift(last.ret)
               /\ 2 * Drift(last.ret) < n

\* an order whose share falls exactly on a half hundredth, rounded up
C18_Witness ==
    /\ last.op = "CreateOrder"
    /\ last.status = "ok"
    /\ last.ret.amount.units > 0
    /\ 2 * Drift(last.ret) = -Len(last.ret.participants)

\* the number of entries of seq[1..i] equal to seq[i]
OccurrencesUpTo(seq, i) == Cardinality({j \in 1..i : seq[j] = seq[i]})

\* C19: the shares of a created order of amount A for N participants sum to
\* A within N hundredths, |N * share - A| <= N * 0.01, and the difference is
\* not handed to anyone: each pass of create_debts_from_order charges its
\* participant exactly the order's share.
C19_DriftBoundedNotRedistributed ==
    [][/\ (last'.op = "CreateOrder" /\ last'.status = "ok")
            => /\ Drift(last'.ret) <= Len(last'.ret.participants)
               /\ -Drift(last'.ret) <= Len(last'.ret.participants)
       /\ (last'.op = "ApplyOrder" /\ last'.status = "ok")
            => LET order == orders[last'.args.id]
                   ds == Debtors(order)
               IN  /\ Len(last'.ret) = Len(ds)
                   /\ \A i \in DOMAIN ds :
                         last'.ret[i].amount
                           = EdgeAmount(debts, <<ds[i], order.payer, order.chat_id>>)
                             + OccurrencesUpTo(ds, i)
                                 * cents_of(order.per_person_amount)]_vars

\* the debts of an order whose shares do not sum to its amount have been
\* generated: two debtors, the same share each
C19_Witness ==
    /\ last.op = "ApplyOrder"
    /\ applies = 1
    /\ Drift(orders[1]) # 0
    /\ Len(last.ret) = 2
    /\ last.ret[1].debtor # last.ret[2].debtor
    /\ last.ret[1].amount = last.ret[2].amount
    /\ last.ret[1].amount > 0

\* C20: a create_order call leaves every debt edge and every payment record
\* as it was; when it succeeds the stored orders are those before the call
\* plus the one returned, when it fails validation the stored orders are
\* unchanged and no order is returned.
C20_CreateOrderFrame ==
    [][last'.op = "CreateOrder"
        => /\ debts' = debts
           /\ payments' = payments
           /\ IF last'.status = "ok"
              THEN /\ last'.ret.id \notin DOMAIN orders
                   /\ DOMAIN orders' = DOMAIN orders \cup {last'.ret.id}
                   /\ \A i \in DOMAIN orders : orders'[i] = orders[i]
                   /\ orders'[last'.ret.id] = last'.ret
              ELSE /\ orders' = orders
                   /\ last'.ret = None]_vars

\* a second order has been created on a ledger that holds a debt and a payment
C20_Witness ==
    /\ last.op = "CreateOrder"
    /\ last.status = "ok"
    /\ Cardinality(DOMAIN orders) = 2
    /\ debts # <<>>
    /\ payments # <<>>


\* C21: get_net_balance(A, B) nets debt(A->B) - debt(B->A), a missing edge
\* counted as zero: a positive difference makes A the net debtor and B the
\* net creditor of the difference, a negative one makes B the net debtor and
\* A the net creditor of its absolute value, and a zero difference reports a
\* balance of 0 with neither a debtor nor a creditor.
C21_NetBalance ==
    \A A \in Users, B \in Users, chat_id \in Chats :
        LET ab == EdgeAmount(debts, <<A, B, chat_id>>)
            ba == EdgeAmount(debts, <<B, A, chat_id>>)
            r  == get_net_balance(debts, A, B, chat_id)
        IN  /\ DOMAIN r = {"net_balance", "net_debtor", "net_creditor"}
            /\ ab > ba => /\ r.net_balance = ab - ba
                          /\ r.net_debtor = A
                          /\ r.net_creditor = B
            /\ ab < ba => /\ r.net_balance = ba - ab
                          /\ r.net_debtor = B
                          /\ r.net_creditor = A
            /\ ab = ba => /\ r.net_balance = 0
                          /\ r.net_debtor = None
                          /\ r.net_creditor = None

\* petya owes ivan 0.01 and ivan owes petya 0.02 in one chat: netted from
\* petya's side the difference is negative
C21_Witness ==
    /\ EdgeAmount(debts, <<"petya", "ivan", 0>>) = 1
    /\ EdgeAmount(debts, <<"ivan", "petya", 0>>) = 2
    /\ get_net_balance(debts, "petya", "ivan", 0).net_balance = 1

\* C22: in every reachable state get_net_balance(A, B) and
\* get_net_balance(B, A) report the same magnitude, the same net debtor and
\* the same net creditor, and both report zero with neither a debtor nor a
\* creditor exactly when debt(A->B) equals debt(B->A).
C22_NetBalanceSymmetric ==
    \A A \in Users, B \in Users, chat_id \in Chats :
        LET r1 == get_net_balance(debts, A, B, chat_id)
            r2 == get_net_balance(debts, B, A, chat_id)
            equal == EdgeAmount(debts, <<A, B, chat_id>>)
                        = EdgeAmount(debts, <<B, A, chat_id>>)
        IN  /\ r1.net_balance = r2.net_balance
            /\ r1.net_balance >= 0
            /\ (r1.net_balance = 0) <=> equal
            /\ IF equal
               THEN /\ r1.net_debtor = None /\ r1.net_creditor = None
                    /\ r2.net_debtor = None /\ r2.net_creditor = None
               ELSE /\ r1.net_debtor = r2.net_debtor
                    /\ r1.net_creditor = r2.net_creditor
                    /\ {r1.net_debtor, r1.net_creditor} = {A, B}

\* both opposite edges are present and unequal: netted from either side,
\* ivan is the net debtor
C22_Witness ==
    /\ EdgeAmount(debts, <<"petya", "ivan", 0>>) = 1
    /\ EdgeAmount(debts, <<"ivan", "petya", 0>>) = 2
    /\ get_net_balance(debts, "ivan", "petya", 0).net_debtor = "ivan"
    /\ get_net_balance(debts, "petya", "ivan", 0).net_debtor = "ivan"


\* C23: debts are not netted when they are written: create_debts_from_order
\* for an order paid by B changes only edges directed to B in the order's
\* chat, an existing opposite edge B -> A keeps its record, and when both
\* A -> B and B -> A are live in a chat after the call the raw views list
\* both.
C23_NoNettingAtWrite ==
    [][last'.op = "ApplyOrder" /\ last'.status = "ok"
        => LET order == orders[last'.args.id]
           IN  /\ \A k \in Keys :
                     (k[2] # order.payer \/ k[3] # order.chat_id)
                     => /\ k \in DOMAIN debts' <=> k \in DOMAIN debts
                        /\ k \in DOMAIN debts => debts'[k] = debts[k]
               /\ \A A \in Users, B \in Users, c \in Chats :
                     (/\ EdgeAmount(debts', <<A, B, c>>) > 0
                      /\ EdgeAmount(debts', <<B, A, c>>) > 0)
                     => /\ debts'[<<A, B, c>>] \in get_debts_by_user(debts', A, c)
                        /\ debts'[<<B, A, c>>] \in get_debts_to_user(debts', A, c)
                        /\ {debts'[<<A, B, c>>], debts'[<<B, A, c>>]}
                              \subseteq get_all_debts(debts', c)]_vars

\* an order paid by petya has just made ivan owe petya while petya still
\* owes ivan in the same chat
C23_Witness ==
    /\ last.op = "ApplyOrder"
    /\ orders[last.args.id].payer = "petya"
    /\ \E c \in Chats :
          /\ orders[last.args.id].chat_id = c
          /\ EdgeAmount(debts, <<"ivan", "petya", c>>) > 0
          /\ EdgeAmount(debts, <<"petya", "ivan", c>>) > 0
          /\ Cardinality(get_all_debts(debts, c)) >= 2


\* the stored edge of key k when it is live, None otherwise
LiveEdge(ds, k) == IF EdgeAmount(ds, k) > 0 THEN ds[k] ELSE None

\* C24: get_consolidated_debts(user, chat) has one entry for exactly each
\* counterparty with a live edge to or from the user in that chat; the entry
\* carries the two raw edges (None when missing), the absolute value of
\* net = i_owe.amount - they_owe.amount with a missing edge counted as 0,
\* and the direction i_owe for net > 0, they_owe for net < 0 and settled
\* for net = 0.
C24_ConsolidatedEntries ==
    \A user \in Users, chat_id \in Chats :
        LET r == get_consolidated_debts(debts, user, chat_id)
            cps == {v \in Users :
                       \/ EdgeAmount(debts, <<user, v, chat_id>>) > 0
                       \/ EdgeAmount(debts, <<v, user, chat_id>>) > 0}
        IN  /\ {e.counterparty : e \in r.debts} = cps
            /\ Cardinality(r.debts) = Cardinality(cps)
            /\ \A e \in r.debts :
                  LET io == <<user, e.counterparty, chat_id>>
                      to == <<e.counterparty, user, chat_id>>
                      net == EdgeAmount(debts, io) - EdgeAmount(debts, to)
                  IN  /\ e.i_owe = LiveEdge(debts, io)
                      /\ e.they_owe = LiveEdge(debts, to)
                      /\ net > 0 => e.net_direction = "i_owe" /\ e.net_amount = net
                      /\ net < 0 => e.net_direction = "they_owe" /\ e.net_amount = -net
                      /\ net = 0 => e.net_direction = "settled" /\ e.net_amount = 0

\* ivan owes petya 0.02, petya owes ivan 0.01 and masha owes ivan 0.01 in
\* chat 0, and ivan's breakdown has the two entries
C24_Witness ==
    /\ EdgeAmount(debts, <<"ivan", "petya", 0>>) = 2
    /\ EdgeAmount(debts, <<"petya", "ivan", 0>>) = 1
    /\ EdgeAmount(debts, <<"masha", "ivan", 0>>) = 1
    /\ Cardinality(get_consolidated_debts(debts, "ivan", 0).debts) = 2

\* C25: the grand totals of get_consolidated_debts add up netted amounts:
\* total_i_owe is the sum of net_amount over the entries of direction i_owe,
\* total_they_owe the sum over the entries of direction they_owe, and a
\* settled entry adds to neither.
C25_ConsolidatedTotals ==
    \A user \in Users, chat_id \in Chats :
        LET r == get_consolidated_debts(debts, user, chat_id)
            net_amount == [e \in r.debts |-> e.net_amount]
        IN  /\ r.total_i_owe =
                  SumOver({e \in r.debts : e.net_direction = "i_owe"}, net_amount)
            /\ r.total_they_owe =
                  SumOver({e \in r.debts : e.net_direction = "they_owe"}, net_amount)

\* ivan's breakdown has an entry in each direction, and the netted total of
\* what ivan owes is less than the raw edge
C25_Witness ==
    LET r == get_consolidated_debts(debts, "ivan", 0)
    IN  /\ r.total_i_owe = 1
        /\ r.total_they_owe = 1
        /\ get_debt(debts, "ivan", "petya", 0) = 2
        /\ \E e \in r.debts : e.net_direction = "they_owe"


\* the keys of the stored edges of positive amount among the keys K
LiveKeys(ds, K) == {k \in K \cap DOMAIN ds : ds[k].amount > 0}

\* the sum of the stored amounts over the keys K
RECURSIVE SumKeys(_, _)
SumKeys(ds, K) ==
    IF K = {} THEN 0
    ELSE LET k == CHOOSE x \in K : TRUE
         IN  ds[k].amount + SumKeys(ds, K \ {k})

\* C26: the raw views list exactly the stored edges of amount > 0 in scope
\* and total them: get_debts_by_user(user) the edges with debtor = user,
\* get_debts_to_user(user) those with creditor = user, get_all_debts those of
\* the chat, each with total = the sum of the listed amounts; the two
\* per-user views return the empty list, total 0 and their canned message
\* when no edge qualifies and no message otherwise.
C26_RawViews ==
    \A chat_id \in Chats :
        /\ \A user \in Users :
            LET by == LiveKeys(debts, {k \in Keys : k[1] = user /\ k[3] = chat_id})
                to == LiveKeys(debts, {k \in Keys : k[2] = user /\ k[3] = chat_id})
                r1 == get_debts_by_user_result(debts, user, chat_id)
                r2 == get_debts_to_user_result(debts, user, chat_id)
            IN  /\ r1.debts = {[creditor |-> k[2], amount |-> debts[k].amount,
                                description |-> debts[k].description] : k \in by}
                /\ r1.total = SumKeys(debts, by)
                /\ IF by = {} THEN r1.message = NO_DEBTS_MESSAGE
                              ELSE r1.message = None
                /\ r2.debts = {[debtor |-> k[1], amount |-> debts[k].amount,
                                description |-> debts[k].description] : k \in to}
                /\ r2.total = SumKeys(debts, to)
                /\ IF to = {} THEN r2.message = NOBODY_OWES_MESSAGE
                              ELSE r2.message = None
        /\ LET all == LiveKeys(debts, {k \in Keys : k[3] = chat_id})
               r == get_all_debts_result(debts, chat_id)
           IN  /\ r.debts = {[debtor |-> k[1], creditor |-> k[2],
                              amount |-> debts[k].amount,
                              description |-> debts[k].description] : k \in all}
               /\ r.total = SumKeys(debts, all)

\* chat 0 stores a zero-amount edge masha -> ivan next to a live edge
\* petya -> ivan: masha's view is empty with its message, ivan's lists petya
\* only
C26_Witness ==
    /\ <<"masha", "ivan", 0>> \in DOMAIN debts
    /\ debts[<<"masha", "ivan", 0>>].amount = 0
    /\ get_debts_by_user_result(debts, "masha", 0).debts = {}
    /\ get_debts_by_user_result(debts, "masha", 0).message = NO_DEBTS_MESSAGE
    /\ Cardinality(get_debts_to_user_result(debts, "ivan", 0).debts) = 1
    /\ get_debts_to_user_result(debts, "ivan", 0).total > 0


\* C27: in every state reached by store writes (save_order, save_debt,
\* save_payment) every participant and payer of a stored order and every
\* debtor and creditor of a stored debt or payment is a registered user.
C27_HandlesRegistered ==
    /\ \A id \in DOMAIN orders :
          SeqRange(orders[id].participants) \cup {orders[id].payer} \subseteq users
    /\ \A k \in DOMAIN debts : {debts[k].debtor, debts[k].creditor} \subseteq users
    /\ \A i \in DOMAIN payments :
          {payments[i].debtor, payments[i].creditor} \subseteq users


\* C28: after any sequence of create_order, create_debts_from_order and
\* record_payment calls, a repository opened anew on the same database
\* yields the orders as they were created (id, description, amount, payer,
\* participants, share) and the debt edges with their amounts.
C28_SurvivesRestart ==
    last.op = "Reopen"
    => /\ last.ret.orders = orders
       /\ last.ret.debts = debts


\* whether worker p ran create_debts_from_order
Applying(p) == "order" \in DOMAIN local[p]

\* what worker p's call adds to key k: the shares of its order, or minus its
\* payment
Contribution(p, k) ==
    IF Applying(p) THEN SharesAdded(orders[local[p].order], k)
    ELSE IF LocalKey(p) = k THEN -local[p].amount ELSE 0

\* C29: when create_debts_from_order adding s and record_payment of p, or
\* two create_debts_from_order calls adding s1 and s2, run concurrently on
\* one key and both succeed, the edge ends at its initial amount + s - p,
\* resp. + s1 + s2: no update is lost and no deleted edge comes back with a
\* stale amount.
C29_MixedWritesSerialized ==
    \A p, q \in Procs, k \in Keys :
        (/\ p # q /\ Succeeded(p) /\ Succeeded(q)
         /\ Applying(p)
         /\ Contribution(p, k) # 0 /\ Contribution(q, k) # 0)
        => EdgeAmount(debts, k)
             = EdgeAmount(debts0, k) + Contribution(p, k) + Contribution(q, k)


\* C30: a successful record_payment writes one debt edge: every other debt
\* edge, the opposite edge and the edges of other pairs and chats included,
\* every order and every payment stored before are left as they were.
C30_RecordPaymentFrame ==
    [][last'.op = "RecordPayment" /\ last'.status = "ok"
        => /\ \A k \in (DOMAIN debts \cup DOMAIN debts') \ {ArgsKey(last'.args)} :
                /\ k \in DOMAIN debts
                /\ k \in DOMAIN debts'
                /\ debts'[k] = debts[k]
           /\ orders' = orders
           /\ Len(payments') = Len(payments) + 1
           /\ SubSeq(payments', 1, Len(payments)) = payments]_vars

\* petya has paid ivan while ivan owes petya in the same chat: the opposite
\* edge is still there
C30_Witness ==
    /\ last.op = "RecordPayment"
    /\ last.status = "ok"
    /\ last.args.debtor = "petya"
    /\ EdgeAmount(debts, <<"ivan", "petya", last.args.chat_id>>) > 0
    /\ Len(payments) >= 1
    /\ orders # <<>>


\* C31: when a non-payer participant is listed more than once in an order,
\* create_debts_from_order leaves one stored edge for (participant, payer,
\* chat), and that edge grows by one share for the order, not by one share
\* per occurrence of the participant in the list.
C31_DuplicatesCollapse ==
    [][last'.op = "ApplyOrder" /\ last'.status = "ok"
        => LET order == orders[last'.args.id]
           IN  \A i \in DOMAIN Debtors(order) :
                  LET k == <<Debtors(order)[i], order.payer, order.chat_id>>
                  IN  /\ k \in DOMAIN debts'
                      /\ Cardinality({x \in DOMAIN debts' :
                            /\ debts'[x].debtor = k[1]
                            /\ debts'[x].creditor = k[2]
                            /\ debts'[x].chat_id = k[3]}) = 1
                      /\ EdgeAmount(debts', k)
                           = EdgeAmount(debts, k)
                             + cents_of(order.per_person_amount)]_vars


\* the keys create_debts_from_order writes for the order
WrittenKeys(order) ==
    {<<Debtors(order)[i], order.payer, order.chat_id>> : i \in DOMAIN Debtors(order)}

\* C32: create_debts_from_order returns the edges it touched, as stored:
\* one entry per edge written by the call, every entry's amount being the
\* amount stored under its key (debtor, creditor, chat) when the call
\* returns; every successfully created order yields at least one returned
\* edge.
C32_ReturnsEdgesAsStored ==
    [][last'.op = "ApplyOrder" /\ last'.status = "ok"
        => LET order == orders[last'.args.id]
               ret == last'.ret
           IN  /\ Len(ret) = Cardinality(WrittenKeys(order))
               /\ {DebtKey(ret[i]) : i \in DOMAIN ret} = WrittenKeys(order)
               /\ \A i \in DOMAIN ret :
                     /\ DebtKey(ret[i]) \in DOMAIN debts'
                     /\ ret[i].amount = debts'[DebtKey(ret[i])].amount
               /\ Len(ret) >= 1]_vars


\* C33: an edge's description is the descriptions of the orders applied to
\* its key since the edge was created, joined in application order with
\* empty fragments dropped: each create_debts_from_order call appends its
\* order's description once to the description of every edge it writes (a
\* fresh edge starts from nothing), and a partial payment leaves the
\* description as it was.
C33_DescriptionProvenance ==
    [][/\ (last'.op = "ApplyOrder" /\ last'.status = "ok")
            => LET order == orders[last'.args.id]
               IN  \A k \in WrittenKeys(order) :
                      debts'[k].description
                        = (IF k \in DOMAIN debts THEN debts[k].description
                           ELSE <<>>)
                          \o (IF order.description = "" THEN <<>>
                              ELSE <<order.description>>)
       /\ (last'.op = "RecordPayment" /\ last'.status = "ok"
           /\ ArgsKey(last'.args) \in DOMAIN debts')
            => debts'[ArgsKey(last'.args)].description
                 = debts[ArgsKey(last'.args)].description]_vars


\* the entries of a consolidated view for the counterparty with the
\* direction
EntriesFor(entries, counterparty, direction) ==
    {e \in entries : e.counterparty = counterparty /\ e.net_direction = direction}

\* C34: the two netting views agree in every reachable state: for users u
\* and v, get_consolidated_debts(u) has an entry for v of direction i_owe
\* and net_amount n exactly when get_net_balance(u, v) reports net debtor u
\* with net_balance n, and one of direction they_owe and net_amount n
\* exactly when it reports net debtor v with net_balance n;
\* get_consolidated_debts(v) shows the mirrored direction with the same
\* net_amount.
C34_NettingViewsAgree ==
    \A chat_id \in Chats :
        \A view \in {[u \in Users |->
                        get_consolidated_debts(debts, u, chat_id).debts]} :
            \A u \in Users : \A v \in Users \ {u} :
                LET r == get_net_balance(debts, u, v, chat_id)
                    i_owe == EntriesFor(view[u], v, "i_owe")
                    they_owe == EntriesFor(view[u], v, "they_owe")
                    u_debtor == r.net_balance > 0 /\ r.net_debtor = u
                    v_debtor == r.net_balance > 0 /\ r.net_debtor = v
                IN  /\ i_owe # {} <=> u_debtor
                    /\ they_owe # {} <=> v_debtor
                    /\ \A e \in i_owe \cup they_owe : e.net_amount = r.net_balance
                    /\ Cardinality(i_owe \cup they_owe) <= 1
                    /\ \A e \in i_owe :
                          \E m \in EntriesFor(view[v], u, "they_owe") :
                              m.net_amount = e.net_amount
                    /\ \A e \in they_owe :
                          \E m \in EntriesFor(view[v], u, "i_owe") :
                              m.net_amount = e.net_amount

\* ivan owes petya 0.02 and petya owes ivan 0.01: ivan's view says i_owe
\* 0.01 for petya, the net balance names ivan the debtor of 0.01, and
\* petya's view says they_owe 0.01 for ivan
C34_Witness ==
    /\ get_net_balance(debts, "ivan", "petya", 0).net_balance = 1
    /\ EdgeAmount(debts, <<"petya", "ivan", 0>>) = 1
    /\ \E e \in EntriesFor(get_consolidated_debts(debts, "ivan", 0).debts,
                           "petya", "i_owe") : e.net_amount = 1
    /\ \E e \in EntriesFor(get_consolidated_debts(debts, "petya", 0).debts,
                           "ivan", "they_owe") : e.net_amount = 1


\* the entries of a user's get_debts_by_user / get_debts_to_user list as
\* edges: the user is the debtor, resp. the creditor, of each
OwedBy(user, entries) ==
    {[debtor |-> user, creditor |-> e.creditor, amount |-> e.amount,
      description |-> e.description] : e \in entries}
OwedTo(user, entries) ==
    {[debtor |-> e.debtor, creditor |-> user, amount |-> e.amount,
      description |-> e.description] : e \in entries}

\* C35: the aggregate views of a chat are consistent in every reachable
\* state: the total of get_all_debts equals the sum over the users of the
\* get_debts_by_user totals and the sum over the users of the
\* get_debts_to_user totals, and each edge get_all_debts lists is in exactly
\* one user's get_debts_by_user list, its debtor's, and in exactly one user's
\* get_debts_to_user list, its creditor's.
C35_AggregateViewsConsistent ==
    \A chat_id \in Chats :
        \A all \in {get_all_debts_result(debts, chat_id)},
           by \in {[u \in Users |-> get_debts_by_user_result(debts, u, chat_id)]},
           to \in {[u \in Users |-> get_debts_to_user_result(debts, u, chat_id)]} :
            /\ all.total = SumOver(Users, [u \in Users |-> by[u].total])
            /\ all.total = SumOver(Users, [u \in Users |-> to[u].total])
            /\ \A e \in all.debts :
                  /\ {u \in Users : e \in OwedBy(u, by[u].debts)} = {e.debtor}
                  /\ {u \in Users : e \in OwedTo(u, to[u].debts)} = {e.creditor}
            /\ Cardinality(all.debts)
                 = SumOver(Users, [u \in Users |-> Cardinality(by[u].debts)])
            /\ Cardinality(all.debts)
                 = SumOver(Users, [u \in Users |-> Cardinality(to[u].debts)])

\* chat 0 has three live edges, two of them owed to ivan and one owed by
\* ivan, 0.04 in all
C35_Witness ==
    /\ Cardinality(get_all_debts_result(debts, 0).debts) = 3
    /\ Cardinality(get_debts_to_user_result(debts, "ivan", 0).debts) = 2
    /\ Cardinality(get_debts_by_user_result(debts, "ivan", 0).debts) = 1
    /\ get_all_debts_result(debts, 0).total = 4


\* C36: the in-memory store and the SQLite store are interchangeable: after
\* any sequence of repository operations applied to both from empty, get_order,
\* get_debt, get_debts_by_debtor, get_debts_by_creditor, get_all_debts and
\* user_exists return the same records (as sets) from both.
C36_StoresInterchangeable ==
    /\ \A order_id \in 1..MaxOrders :
          repo_get_order(orders, order_id) = sql_get_order(db, order_id)
    /\ \A k \in Keys :
          repo_get_debt(debts, k[1], k[2], k[3])
              = sql_get_debt(db, k[1], k[2], k[3])
    /\ \A u \in Users, chat_id \in Chats :
          /\ repo_get_debts_by_debtor(debts, u, chat_id)
                = sql_get_debts_by_debtor(db, u, chat_id)
          /\ repo_get_debts_by_creditor(debts, u, chat_id)
                = sql_get_debts_by_creditor(db, u, chat_id)
    /\ \A chat_id \in Chats :
          repo_get_all_debts(debts, chat_id) = sql_get_all_debts(db, chat_id)
    /\ \A username \in Handles :
          repo_user_exists(users, username) = sql_user_exists(db, username)

====
